---- MODULE Spec2Model ----
(***************************************************************************)
(* peglex: a PEG matching engine (peglex.h).  A grammar is a tree of       *)
(* Pattern nodes stored by value; Pattern::match(src) returns the advanced *)
(* source pointer (std::optional<const char*>) or std::nullopt.            *)
(*                                                                         *)
(* The input is a NUL-terminated character buffer.  buf holds the          *)
(* characters before the terminator; a pointer into the buffer is an index *)
(* 1..Len(buf)+1, where Len(buf)+1 is the position of the terminator (the  *)
(* sentinel position); nullptr is the null pointer.                        *)
(***************************************************************************)
EXTENDS Integers, Sequences, FiniteSets

\* ------------------------------------------------------------------ bounds
\* longest enumerated input buffer (characters before the terminator)
MaxLen == 3
\* most tags of an enumerated tag sequence
MaxTags == 3

\* --------------------------------------------------------------- characters
NUL == 0
nullptr == 0
chA == 97
chB == 98
chC == 99
chD == 100
chE == 101
chF == 102
chG == 103
chLP == 40
chRP == 41
chTab == 9
chLF == 10
chCR == 13
chSpace == 32
chQuote == 34
chPlus == 43
chMinus == 45
chDot == 46
chSlash == 47
ch0 == 48
ch1 == 49
ch2 == 50
ch3 == 51
ch4 == 52
ch5 == 53
ch9 == 57
chLT == 60
chGT == 62
chUpperA == 65
chUpperE == 69
chUpperF == 70
chUpperZ == 90
chT == 116
chX == 120
chZ == 122

\* the character a pointer designates: *src (src is never nullptr here)
Deref(b, p) == IF p <= Len(b) THEN b[p] ELSE NUL

\* the position of the terminator of buffer b
Sentinel(b) == Len(b) + 1

\* -------------------------------------------------- std::optional<const char*>
\* The outcome of one call of match, with the hooks the call invoked, in the
\* order of invocation:
\*   "some"    the call returned the pointer pos
\*   "nullopt" the call returned std::nullopt
\*   "hang"    the call does not return
\*   "throw"   the call is left by the std::runtime_error of
\*             UserFnRegistry::get ("Error: UserFn not registered.")
\*   "crash"   the call ends the process (the stack is exhausted, or memory
\*             outside the buffer is accessed)
Some(p, l) == [st |-> "some", pos |-> p, log |-> l]
Nullopt(l) == [st |-> "nullopt", pos |-> nullptr, log |-> l]
Hang(l) == [st |-> "hang", pos |-> nullptr, log |-> l]
Throw(l) == [st |-> "throw", pos |-> nullptr, log |-> l]
Crash(l) == [st |-> "crash", pos |-> nullptr, log |-> l]

\* A loop of ZeroPlus::match that comes back to a position it has been at
\* cannot terminate.  Such a loop (no input/output, no volatile or atomic
\* access) is undefined behaviour in C++ ([intro.progress]), and builds differ:
\* unoptimised, the call never returns; g++ 12 -O2 takes the loop to have
\* been left by its condition, while(src), and the call returns a null
\* pointer (star(eps()).match("ab") has a value, nullptr).
Stuck(l) == {Hang(l), Some(nullptr, l)}

\* ------------------------------------------------------------ Pattern nodes
Eps == [op |-> "Eps"]
Any == [op |-> "Any"]
Char(ch) == [op |-> "Char", c |-> ch]
Range(l, h) == [op |-> "Range", lo |-> l, hi |-> h]
Str(s) == [op |-> "Str", seq |-> s]
Check(e) == [op |-> "Check", expr |-> e]
Not(e) == [op |-> "Not", expr |-> e]
ZeroPlus(e) == [op |-> "ZeroPlus", expr |-> e]
Until(e) == [op |-> "Until", expr |-> e]
Or(l, r) == [op |-> "Or", left |-> l, right |-> r]
And(l, r) == [op |-> "And", left |-> l, right |-> r]
ExistCallback(e, ef, mf) ==
    [op |-> "ExistCallback", expr |-> e, exist_fn |-> ef, missing_fn |-> mf]
RangeCallback(e, ef, mf) ==
    [op |-> "RangeCallback", expr |-> e, exist_fn |-> ef, missing_fn |-> mf]
StringCallback(e, ef, mf) ==
    [op |-> "StringCallback", expr |-> e, exist_fn |-> ef, missing_fn |-> mf]
User(f) == [op |-> "User", fn |-> f]

\* hooks are named; invoking a hook appends its name and its arguments to the
\* log of the call.  defaultExistFn and defaultMissingFn have empty bodies.
defaultExistFn == "defaultExistFn"
defaultMissingFn == "defaultMissingFn"
Invoke(fn) ==
    IF fn \in {defaultExistFn, defaultMissingFn}
    THEN <<>>
    ELSE <<[fn |-> fn, args |-> <<>>]>>
\* a RangeCallbackFn receives two pointers
InvokeRange(fn, first, last) == <<[fn |-> fn, args |-> <<first, last>>]>>
\* a StringCallbackFn receives a std::string, here its characters
InvokeString(fn, tmp) == <<[fn |-> fn, args |-> tmp]>>

\* --------------------------------------------------------------- UserFn
\* A UserFn is a std::function; the two kinds of target the library stores:
\*   std::bind(&Expr::match, expr, _1)              a copy of a grammar
\*   std::bind(&UserFnRegistry::match, this, key, _1)  a key of the registry
BindExprMatch(e) == [target |-> "Expr::match", expr |-> e]
BindRegistryMatch(k) == [target |-> "UserFnRegistry::match", key |-> k]

\* std::map<Key,UserFn> _registry of the UserFnRegistry the grammars of a
\* run share: a function from the registered keys to their UserFn
VARIABLE registry

DuplicateError == "Error: tried to add duplicate UserFn for key."
NoError == "none"

\* UserFnRegistry::set without the test for a registered key
UserFnRegistry_set_overwrite(reg, key, fn) ==
    [registry |-> [k \in DOMAIN reg \cup {key} |->
                      IF k = key THEN fn ELSE reg[k]],
     thrown |-> NoError]

\* UserFnRegistry::set: the registry after the call and what the call threw
UserFnRegistry_set(reg, key, fn) ==
    IF key \in DOMAIN reg
    THEN [registry |-> reg, thrown |-> DuplicateError]
    ELSE [registry |-> [k \in DOMAIN reg \cup {key} |->
                           IF k = key THEN fn ELSE reg[k]],
          thrown |-> NoError]

\* UserFnRegistry::bind stores a copy of expr
UserFnRegistry_bind(reg, key, e) == UserFnRegistry_set(reg, key, BindExprMatch(e))

\* UserFnRegistry::cb resolving the key when it is called: the UserFn of the
\* key, and for a key that is not registered one that never matches
UserFnRegistry_cb_resolved(key) ==
    IF key \in DOMAIN registry THEN registry[key] ELSE BindExprMatch(Not(Eps))

\* UserFnRegistry::cb
UserFnRegistry_cb(key) == BindRegistryMatch(key)

\* ------------------------------------------------------------------- match
\* match(e, b, src, stk) is the set of outcomes of e.match(src) on buffer b:
\* one outcome, unless the call runs into a loop that cannot terminate.  stk
\* holds the calls of UserFnRegistry::match that are on the call stack, each
\* as <<key, src>>.
RECURSIVE match(_, _, _, _)
RECURSIVE Call(_, _, _, _)

Eps_match(e, b, src, stk) == {Some(src, <<>>)}

\* Any::match advancing past the terminator
Any_match_past(e, b, src, stk) ==
    IF src # nullptr THEN {Some(src + 1, <<>>)} ELSE {Nullopt(<<>>)}

Any_match(e, b, src, stk) ==
    IF src # nullptr
    THEN {Some(IF Deref(b, src) # NUL THEN src + 1 ELSE src, <<>>)}
    ELSE {Nullopt(<<>>)}

Char_match(e, b, src, stk) ==
    IF src # nullptr /\ Deref(b, src) = e.c
    THEN {Some(IF e.c # NUL THEN src + 1 ELSE src, <<>>)}
    ELSE {Nullopt(<<>>)}

\* Range::match with the upper bound excluded
Range_match_exclusive(e, b, src, stk) ==
    IF src # nullptr /\ Deref(b, src) >= e.lo /\ Deref(b, src) < e.hi
    THEN {Some(IF Deref(b, src) # NUL THEN src + 1 ELSE src, <<>>)}
    ELSE {Nullopt(<<>>)}

Range_match(e, b, src, stk) ==
    IF src # nullptr /\ Deref(b, src) >= e.lo /\ Deref(b, src) <= e.hi
    THEN {Some(IF Deref(b, src) # NUL THEN src + 1 ELSE src, <<>>)}
    ELSE {Nullopt(<<>>)}

\* the while loop of Str::match and the test after it; sptr is an index into
\* _seq, whose terminator is at Len(seq)+1
RECURSIVE Str_loop(_, _, _, _)
Str_loop(seq, b, src, sptr) ==
    IF src # nullptr /\ Deref(b, src) # NUL /\ sptr <= Len(seq)
    THEN IF seq[sptr] # Deref(b, src)
         THEN Nullopt(<<>>)
         ELSE Str_loop(seq, b, src + 1, sptr + 1)
    ELSE IF sptr = Len(seq) + 1
         THEN Some(src, <<>>)
         ELSE Nullopt(<<>>)

\* Str::match succeeding when the input ends inside _seq
Str_match_prefix(e, b, src, stk) ==
    IF /\ src # nullptr
       /\ Sentinel(b) - src < Len(e.seq)
       /\ \A i \in 1 .. Sentinel(b) - src : e.seq[i] = Deref(b, src + i - 1)
    THEN {Some(Sentinel(b), <<>>)}
    ELSE {Str_loop(e.seq, b, src, 1)}

Str_match(e, b, src, stk) == {Str_loop(e.seq, b, src, 1)}

\* Check::match returning the sub-expression's result, not rewound
Check_match_norewind(e, b, src, stk) == match(e.expr, b, src, stk)

Check_match(e, b, src, stk) ==
    { CASE ret.st = "some" -> Some(src, ret.log)
        [] ret.st = "nullopt" -> Nullopt(ret.log)
        [] OTHER -> ret
      : ret \in match(e.expr, b, src, stk) }

\* Not::match without the negation
Not_match_same(e, b, src, stk) ==
    { CASE ret.st = "some" -> Some(src, ret.log)
        [] ret.st = "nullopt" -> Nullopt(ret.log)
        [] OTHER -> ret
      : ret \in match(e.expr, b, src, stk) }

Not_match(e, b, src, stk) ==
    { CASE ret.st = "some" -> Nullopt(ret.log)
        [] ret.st = "nullopt" -> Some(src, ret.log)
        [] OTHER -> ret
      : ret \in match(e.expr, b, src, stk) }

\* the while loop of ZeroPlus::match.  The loop's only state is src, so an
\* iteration that leaves it at a position it has been at before (seen holds
\* the positions of the earlier iterations) repeats: the loop is stuck.
RECURSIVE ZeroPlus_loop(_, _, _, _, _, _)
ZeroPlus_loop(e, b, src, stk, seen, l) ==
    IF src = nullptr
    THEN {Some(src, l)}
    ELSE UNION {
           CASE tmp.st = "some" ->
                  IF tmp.pos \in seen \cup {src}
                  THEN Stuck(l \o tmp.log)
                  ELSE ZeroPlus_loop(e, b, tmp.pos, stk, seen \cup {src}, l \o tmp.log)
             [] tmp.st = "nullopt" -> {Some(src, l \o tmp.log)}
             [] OTHER -> {[tmp EXCEPT !.log = l \o tmp.log]}
           : tmp \in match(e.expr, b, src, stk) }

\* ZeroPlus::match leaving its loop after the first iteration
ZeroPlus_match_once(e, b, src, stk) ==
    IF src = nullptr
    THEN {Some(src, <<>>)}
    ELSE { CASE tmp.st = "some" -> tmp
             [] tmp.st = "nullopt" -> Some(src, tmp.log)
             [] OTHER -> tmp
           : tmp \in match(e.expr, b, src, stk) }

ZeroPlus_match(e, b, src, stk) == ZeroPlus_loop(e, b, src, stk, {}, <<>>)

\* the while loop of Until::match
RECURSIVE Until_loop(_, _, _, _, _)
Until_loop(e, b, src, stk, l) ==
    IF src # nullptr /\ Deref(b, src) # NUL
    THEN UNION {
           CASE tmp.st = "some" -> {Some(src, l \o tmp.log)}
             [] tmp.st = "nullopt" -> Until_loop(e, b, src + 1, stk, l \o tmp.log)
             [] OTHER -> {[tmp EXCEPT !.log = l \o tmp.log]}
           : tmp \in match(e.expr, b, src, stk) }
    ELSE {Nullopt(l)}

\* Until::match with while( src ): the sub-expression is tried at the
\* terminator too
RECURSIVE Until_loop_sentinel(_, _, _, _, _)
Until_loop_sentinel(e, b, src, stk, l) ==
    IF src # nullptr /\ src <= Sentinel(b)
    THEN UNION {
           CASE tmp.st = "some" -> {Some(src, l \o tmp.log)}
             [] tmp.st = "nullopt" -> Until_loop_sentinel(e, b, src + 1, stk, l \o tmp.log)
             [] OTHER -> {[tmp EXCEPT !.log = l \o tmp.log]}
           : tmp \in match(e.expr, b, src, stk) }
    ELSE {Nullopt(l)}

Until_match_sentinel(e, b, src, stk) == Until_loop_sentinel(e, b, src, stk, <<>>)

\* Until::match returning the end of the match it found, not its start
Until_match_end(e, b, src, stk) ==
    UNION { IF r.st = "some"
            THEN {Some(t.pos, r.log) : t \in match(e.expr, b, r.pos, stk)}
            ELSE {r}
            : r \in Until_loop(e, b, src, stk, <<>>) }

Until_match(e, b, src, stk) == Until_loop(e, b, src, stk, <<>>)

\* Or::match evaluating the right operand before it looks at the left result
Or_match_eager(e, b, src, stk) ==
    UNION { CASE res.st = "some" ->
                   {[res EXCEPT !.log = res.log \o r.log] : r \in match(e.right, b, src, stk)}
              [] res.st = "nullopt" ->
                   {[r EXCEPT !.log = res.log \o r.log] : r \in match(e.right, b, src, stk)}
              [] OTHER -> {res}
            : res \in match(e.left, b, src, stk) }

Or_match(e, b, src, stk) ==
    UNION { CASE res.st = "some" -> {res}
              [] res.st = "nullopt" ->
                   {[r EXCEPT !.log = res.log \o r.log] : r \in match(e.right, b, src, stk)}
              [] OTHER -> {res}
            : res \in match(e.left, b, src, stk) }

\* And::match matching the right operand at src, not where the left ended
And_match_restart(e, b, src, stk) ==
    UNION { CASE tmp.st = "some" ->
                   {[r EXCEPT !.log = tmp.log \o r.log] : r \in match(e.right, b, src, stk)}
              [] tmp.st = "nullopt" -> {Nullopt(tmp.log)}
              [] OTHER -> {tmp}
            : tmp \in match(e.left, b, src, stk) }

And_match(e, b, src, stk) ==
    UNION { CASE tmp.st = "some" ->
                   {[r EXCEPT !.log = tmp.log \o r.log] : r \in match(e.right, b, tmp.pos, stk)}
              [] tmp.st = "nullopt" -> {Nullopt(tmp.log)}
              [] OTHER -> {tmp}
            : tmp \in match(e.left, b, src, stk) }

\* ExistCallback::match with the two hooks exchanged
ExistCallback_match_swapped(e, b, src, stk) ==
    { CASE ret.st = "some" -> Some(ret.pos, ret.log \o Invoke(e.missing_fn))
        [] ret.st = "nullopt" -> Nullopt(ret.log \o Invoke(e.exist_fn))
        [] OTHER -> ret
      : ret \in match(e.expr, b, src, stk) }

\* ExistCallback::match invoking its hook before it matches _expr
ExistCallback_match_hook_first(e, b, src, stk) ==
    { CASE ret.st = "some" -> Some(ret.pos, Invoke(e.exist_fn) \o ret.log)
        [] ret.st = "nullopt" -> Nullopt(Invoke(e.missing_fn) \o ret.log)
        [] OTHER -> ret
      : ret \in match(e.expr, b, src, stk) }

ExistCallback_match(e, b, src, stk) ==
    { CASE ret.st = "some" -> Some(ret.pos, ret.log \o Invoke(e.exist_fn))
        [] ret.st = "nullopt" -> Nullopt(ret.log \o Invoke(e.missing_fn))
        [] OTHER -> ret
      : ret \in match(e.expr, b, src, stk) }

\* *ret+1 in RangeCallback::match.  On a null pointer the sum is undefined;
\* builds give the address 1, which is no position of the buffer (here: a
\* pointer before every position).
PlusOne(p) == IF p = nullptr THEN nullptr - 1 ELSE p + 1

\* RangeCallback::match
RangeCallback_match(e, b, src, stk) ==
    { CASE ret.st = "some" ->
             Some(ret.pos, ret.log \o InvokeRange(e.exist_fn, src, PlusOne(ret.pos)))
        [] ret.st = "nullopt" -> Nullopt(ret.log \o Invoke(e.missing_fn))
        [] OTHER -> ret
      : ret \in match(e.expr, b, src, stk) }

\* the characters std::copy(src, last, ...) appends to tmp
Copy(b, src, last) == [i \in 1 .. last - src |-> Deref(b, src + i - 1)]

\* StringCallback::match copying one character more
StringCallback_match_inclusive(e, b, src, stk) ==
    { CASE ret.st = "some" ->
             Some(ret.pos, ret.log \o InvokeString(e.exist_fn, Copy(b, src, ret.pos + 1)))
        [] ret.st = "nullopt" -> Nullopt(ret.log \o Invoke(e.missing_fn))
        [] OTHER -> ret
      : ret \in match(e.expr, b, src, stk) }

\* StringCallback::match.  std::copy(src, *ret, ...) with *ret before src (the
\* null pointer a stuck loop returned) never meets its end: it reads past the
\* buffer, which is undefined behaviour; g++ 12 -O2 hands the hook an empty
\* string.
StringCallback_match(e, b, src, stk) ==
    UNION { CASE ret.st = "some" ->
                   IF ret.pos >= src
                   THEN {Some(ret.pos, ret.log \o InvokeString(e.exist_fn, Copy(b, src, ret.pos)))}
                   ELSE {Crash(ret.log),
                         Some(ret.pos, ret.log \o InvokeString(e.exist_fn, <<>>))}
              [] ret.st = "nullopt" -> {Nullopt(ret.log \o Invoke(e.missing_fn))}
              [] OTHER -> {ret}
            : ret \in match(e.expr, b, src, stk) }

\* UserFnRegistry::get returning the entry of another key
UserFnRegistry_get_other(reg, key) ==
    LET k == CHOOSE x \in DOMAIN reg \cup {key} : \A y \in DOMAIN reg : x <= y
    IN  IF key \in DOMAIN reg
        THEN [fn |-> reg[k], thrown |-> NoError]
        ELSE [fn |-> BindRegistryMatch(key), thrown |-> "Error: UserFn not registered."]

\* UserFnRegistry::get
UserFnRegistry_get(reg, key) ==
    IF key \in DOMAIN reg
    THEN [fn |-> reg[key], thrown |-> NoError]
    ELSE [fn |-> BindRegistryMatch(key), thrown |-> "Error: UserFn not registered."]

\* UserFnRegistry::match taking every nested call with its key for a
\* recursion without end
UserFnRegistry_match_norecursion(key, b, src, stk) ==
    LET got == UserFnRegistry_get(registry, key) IN
    IF got.thrown # NoError
    THEN {Throw(<<>>)}
    ELSE IF \E f \in stk : f[1] = key
         THEN {Crash(<<>>)}
         ELSE Call(got.fn, b, src, stk \cup {<<key, src>>})

\* UserFnRegistry::match with a key that is not registered reported as a
\* failed match
UserFnRegistry_match_nullopt(key, b, src, stk) ==
    LET got == UserFnRegistry_get(registry, key) IN
    IF got.thrown # NoError
    THEN {Nullopt(<<>>)}
    ELSE IF <<key, src>> \in stk
         THEN {Crash(<<>>)}
         ELSE Call(got.fn, b, src, stk \cup {<<key, src>>})

\* UserFnRegistry::match.  A call with the key and src of a call that is still
\* on the stack repeats that call: the recursion has no end and exhausts the
\* stack.
UserFnRegistry_match(key, b, src, stk) ==
    LET got == UserFnRegistry_get(registry, key) IN
    IF got.thrown # NoError
    THEN {Throw(<<>>)}
    ELSE IF <<key, src>> \in stk
         THEN {Crash(<<>>)}
         ELSE Call(got.fn, b, src, stk \cup {<<key, src>>})

\* UserFn::operator(): the call of the bound target
Call(fn, b, src, stk) ==
    IF fn.target = "Expr::match"
    THEN match(fn.expr, b, src, stk)
    ELSE UserFnRegistry_match(fn.key, b, src, stk)

\* User::match
User_match(e, b, src, stk) == Call(e.fn, b, src, stk)

\* Pattern::match: the virtual call
match(e, b, src, stk) ==
    CASE e.op = "Eps" -> Eps_match(e, b, src, stk)
      [] e.op = "Any" -> Any_match(e, b, src, stk)
      [] e.op = "Char" -> Char_match(e, b, src, stk)
      [] e.op = "Range" -> Range_match(e, b, src, stk)
      [] e.op = "Str" -> Str_match(e, b, src, stk)
      [] e.op = "Check" -> Check_match(e, b, src, stk)
      [] e.op = "Not" -> Not_match(e, b, src, stk)
      [] e.op = "ZeroPlus" -> ZeroPlus_match(e, b, src, stk)
      [] e.op = "Until" -> Until_match(e, b, src, stk)
      [] e.op = "Or" -> Or_match(e, b, src, stk)
      [] e.op = "And" -> And_match(e, b, src, stk)
      [] e.op = "ExistCallback" -> ExistCallback_match(e, b, src, stk)
      [] e.op = "RangeCallback" -> RangeCallback_match(e, b, src, stk)
      [] e.op = "StringCallback" -> StringCallback_match(e, b, src, stk)
      [] e.op = "User" -> User_match(e, b, src, stk)

\* ------------------------------------------------ pattern building functions
check(e) == Check(e)
star(e) == ZeroPlus(e)
until(e) == Until(e)
\* maybe with Eps first
maybe_eps_first(e) == Or(Eps, e)
maybe(e) == Or(e, Eps)
plus(e) == And(e, ZeroPlus(e))
cb(e, ef, mf) == ExistCallback(e, ef, mf)
\* the overloads of cb for a RangeCallbackFn, a StringCallbackFn and a UserFn
cb_RangeCallbackFn(e, ef, mf) == RangeCallback(e, ef, mf)
cb_StringCallbackFn(e, ef, mf) == StringCallback(e, ef, mf)
cb_UserFn(fn) == User(fn)
OperatorNot(e) == Not(e)
OperatorOr(l, r) == Or(l, r)
OperatorAnd(l, r) == And(l, r)

\* ------------------------------------------------------------------ inputs
RECURSIVE Strings(_, _)
Strings(alphabet, n) ==
    IF n = 0
    THEN {<<>>}
    ELSE LET shorter == Strings(alphabet, n - 1) IN
         shorter \cup {Append(s, ch) : s \in shorter, ch \in alphabet}

\* "abababcdef" and "abcdefg", the examples of the tests
Example == <<chA, chB, chA, chB, chA, chB, chC, chD, chE, chF>>
Example2 == <<chA, chB, chC, chD, chE, chF, chG>>

\* the buffers matched: every string over {a, b} of at most MaxLen characters
\* and the examples of the tests
Inputs == Strings({chA, chB}, MaxLen) \cup {Example, Example2}

\* the pointers a caller may pass for buffer b: nullptr, the characters of b
\* and the terminator
Pointers(b) == 0 .. Sentinel(b)

\* the sub-expressions grammars are built from (the tests' and others)
Atoms ==
    { Eps, Any, Char(chA), Char(chB), Char(NUL), Char(chF),
      Range(chA, chB), Range(NUL, chA), Range(chB, chA),
      Str(<<>>), Str(<<chA, chB>>), Str(<<chB, chA>>),
      Str(<<chA, chB, chC>>), Str(<<chE, chF>>), Str(<<chF, chG>>),
      Str(<<chA, chB, chC, chD>>) }

Operands ==
    Atoms \cup
    { And(And(Eps, Char(chA)), Char(chB)),
      And(Eps, Str(<<chA, chB>>)),
      And(Any, Char(NUL)),
      Or(Str(<<chA, chB, chC>>), Str(<<chA, chB>>)),
      Or(Str(<<chA, chB>>), Str(<<chA, chB, chC>>)),
      star(Char(chA)), star(Any), star(Eps),
      check(Char(chB)), OperatorNot(Char(chA)), until(Char(chB)),
      maybe(Char(chA)), plus(Char(chB)),
      cb(Char(chA), "a_cb", defaultMissingFn),
      cb(Char(chC), defaultExistFn, "c_cb"),
      cb(Str(<<chA, chB>>), "ab_cb", "ab_missing"),
      star(cb(OperatorOr(OperatorOr(Char(chA), Char(chB)), Char(chC)),
              "inc_scope", defaultMissingFn)),
      cb(Char(chD), "d_cb", defaultMissingFn),
      star(cb(OperatorOr(OperatorOr(Char(chE), Char(chF)), Char(chG)),
              "dec_scope", defaultMissingFn)),
      OperatorAnd(star(cb(OperatorOr(OperatorOr(Char(chA), Char(chB)), Char(chC)),
                          "inc_scope", defaultMissingFn)),
                  cb(Char(chD), "d_cb", defaultMissingFn)),
      OperatorAnd(plus(Char(chA)), check(Char(chB))),
      cb_UserFn(BindExprMatch(Str(<<chB, chC>>))) }

\* "(a)((a))a(a)(((a))(a))b", the sample of the test of recursion, and "((a))"
Sample ==
    <<chLP, chA, chRP, chLP, chLP, chA, chRP, chRP, chA, chLP, chA, chRP,
      chLP, chLP, chLP, chA, chRP, chRP, chLP, chA, chRP, chRP, chB>>
Nested == <<chLP, chLP, chA, chRP, chRP>>

\* the buffers matched by the grammars that use the registry
RegistryInputs == Strings({chLP, chA, chRP}, MaxLen) \cup {Sample, Nested}

\* the keys of UserFnRegistry<int> user_fns
Keys == {0, 1}

\* grammars bound to keys (besides the parser itself)
Rules ==
    { Char(chA),
      cb(Char(chA), "a_cb", "a_missing"),
      OperatorAnd(Char(chLP), cb(Char(chA), "a_cb", defaultMissingFn)) }

\* ------------------------------------------------------------ state machine
VARIABLES
    buf,     \* the input buffer (the characters before the terminator)
    made,    \* the building function that made the grammar
    args,    \* the sub-expressions it was given
    parser,  \* the grammar
    src,     \* the pointer of the last call of parser.match
    ret,     \* the outcome of that call (st = "idle" before the first call)
    thrown   \* what the last call of user_fns.bind threw (NoError: nothing)

vars == <<buf, made, args, parser, src, ret, registry, thrown>>

Idle == [st |-> "idle", pos |-> nullptr, log |-> <<>>]

Unary == {"expr", "check", "not", "star", "until", "maybe", "plus", "cb",
          "star_and", "plus_and", "cb_range", "cb_string"}
Binary == {"or", "and"}

\* auto parser = <building function>(<sub-expressions>)
Build(f, xs) ==
    CASE f = "expr" -> xs[1]
      [] f = "check" -> check(xs[1])
      [] f = "not" -> OperatorNot(xs[1])
      [] f = "star" -> star(xs[1])
      [] f = "until" -> until(xs[1])
      [] f = "maybe" -> maybe(xs[1])
      [] f = "plus" -> plus(xs[1])
      [] f = "cb" -> cb(xs[1], "exist_fn", "missing_fn")
      [] f = "cb_range" -> cb_RangeCallbackFn(xs[1], "exist_fn", "missing_fn")
      [] f = "cb_string" -> cb_StringCallbackFn(xs[1], "exist_fn", "missing_fn")
      [] f = "star_and" -> OperatorAnd(star(xs[1]), xs[1])
      [] f = "plus_and" -> OperatorAnd(plus(xs[1]), xs[1])
      [] f = "or" -> OperatorOr(xs[1], xs[2])
      [] f = "and" -> OperatorAnd(xs[1], xs[2])

Init ==
    /\ buf \in Inputs
    /\ \/ made \in Unary /\ args \in {<<x>> : x \in Operands}
       \/ made \in Binary /\ args \in {<<x, y>> : x \in Operands, y \in Operands}
    /\ parser = Build(made, args)
    /\ src = nullptr
    /\ ret = Idle
    /\ registry = [k \in {} |-> BindRegistryMatch(k)]
    /\ thrown = NoError

\* auto ret = parser.match(p): the one call of a run.  match is a const method
\* of a tree of values, so a later call on the same buffer finds what this
\* one found.
Match(p) ==
    /\ ret.st = "idle"
    /\ src' = p
    /\ ret' \in match(parser, buf, p, {})
    /\ UNCHANGED <<buf, made, args, parser, registry, thrown>>

Next == \E p \in Pointers(buf) : Match(p)

Spec == Init /\ [][Next]_vars

\* ------------------------------------------- grammars that use the registry
WithRegistry == {"user", "recursion", "left", "not_user", "star_user"}

\* UserFnRegistry<int> user_fns; auto parser = <a grammar made with
\* user_fns.cb(key)>
BuildWithRegistry(f, key) ==
    CASE f = "user" -> cb_UserFn(UserFnRegistry_cb(key))
      [] f = "recursion" ->
           plus(OperatorOr(Char(chA),
                           OperatorAnd(OperatorAnd(Char(chLP),
                                                   cb_UserFn(UserFnRegistry_cb(key))),
                                       Char(chRP))))
      [] f = "left" -> OperatorOr(cb_UserFn(UserFnRegistry_cb(key)), Char(chA))
      [] f = "not_user" -> OperatorNot(cb_UserFn(UserFnRegistry_cb(key)))
      [] f = "star_user" -> star(cb_UserFn(UserFnRegistry_cb(key)))

InitRegistry ==
    /\ buf \in RegistryInputs
    /\ made \in WithRegistry
    /\ args \in {<<k>> : k \in Keys}
    /\ registry = [k \in {} |-> BindRegistryMatch(k)]
    /\ thrown = NoError
    /\ parser = BuildWithRegistry(made, args[1])
    /\ src = nullptr
    /\ ret = Idle

\* user_fns.bind(key, expr), expr the parser or another grammar.  The
\* grammar is assembled before the call of match; user_fns.cb(key) has been
\* called for it (InitRegistry) and has thrown nothing, cb having no throw.
Bind(key, expr) ==
    /\ ret.st = "idle"
    /\ LET after == UserFnRegistry_bind(registry, key, expr) IN
          /\ registry' = after.registry
          /\ thrown' = after.thrown
    /\ UNCHANGED <<buf, made, args, parser, src, ret>>

NextRegistry ==
    \/ \E key \in Keys : \E expr \in Rules \cup {parser} : Bind(key, expr)
    \/ \E p \in Pointers(buf) : Match(p)

SpecRegistry == InitRegistry /\ [][NextRegistry]_vars

\* ------------------------------------------------ convenience definitions
eof == Char(NUL)
space == Char(chSpace)
tab == Char(chTab)
carriage_return == Char(chCR)
newline == Char(chLF)
whitespace == OperatorOr(OperatorOr(OperatorOr(space, tab), carriage_return), newline)
digit == Range(ch0, ch9)
hex == OperatorOr(OperatorOr(Range(ch0, ch9), Range(chA, chF)), Range(chUpperA, chUpperF))
lower == Range(chA, chZ)
upper == Range(chUpperA, chUpperZ)
alpha == OperatorOr(lower, upper)
alphanum == OperatorOr(alpha, digit)
digits == plus(digit)
pm == OperatorOr(Char(chPlus), Char(chMinus))
integer == OperatorAnd(maybe(pm), digits)

\* real() with digits required after the '.'
real_fraction_required ==
    OperatorAnd(
        OperatorAnd(
            OperatorAnd(OperatorAnd(maybe(pm), digits), Char(chDot)),
            digits),
        maybe(OperatorAnd(OperatorAnd(OperatorOr(Char(chE), Char(chUpperE)), maybe(pm)),
                          digits)))

real ==
    OperatorAnd(
        OperatorAnd(
            OperatorAnd(OperatorAnd(maybe(pm), digits), Char(chDot)),
            maybe(digits)),
        maybe(OperatorAnd(OperatorAnd(OperatorOr(Char(chE), Char(chUpperE)), maybe(pm)),
                          digits)))

\* ------------------------------------------- the tag parser of the tests
\* the state the hooks push and pop write, after reset()
reset ==
    [tag_stack |-> <<>>, max_depth |-> 0,
     error_stack_underflow |-> FALSE, error_closed_wrong_tag |-> FALSE]

\* push without the update of max_depth
push_flat(st, t) == [st EXCEPT !.tag_stack = Append(@, t)]

push(st, t) ==
    LET pushed == Append(st.tag_stack, t) IN
    [st EXCEPT !.tag_stack = pushed,
               !.max_depth = IF Len(pushed) > @ THEN Len(pushed) ELSE @]

\* pop taking the last tag off whatever its name
pop_any(st, t) ==
    IF st.tag_stack = <<>>
    THEN [st EXCEPT !.error_stack_underflow = TRUE, !.error_closed_wrong_tag = TRUE]
    ELSE [st EXCEPT !.tag_stack = SubSeq(@, 1, Len(@) - 1)]

pop(st, t) ==
    IF st.tag_stack = <<>>
    THEN [st EXCEPT !.error_stack_underflow = TRUE, !.error_closed_wrong_tag = TRUE]
    ELSE IF st.tag_stack[Len(st.tag_stack)] # t
         THEN [st EXCEPT !.error_closed_wrong_tag = TRUE]
         ELSE [st EXCEPT !.tag_stack = SubSeq(@, 1, Len(@) - 1)]

\* the state after the hooks of log l ran, in their order, from state st
RECURSIVE RunHooks(_, _)
RunHooks(st, l) ==
    IF l = <<>>
    THEN st
    ELSE RunHooks(CASE l[1].fn = "push" -> push(st, l[1].args)
                    [] l[1].fn = "pop" -> pop(st, l[1].args)
                    [] OTHER -> st,
                  Tail(l))

tag_parser ==
    plus(OperatorOr(
           OperatorOr(
             OperatorAnd(OperatorAnd(Char(chLT), plus(alphanum)), Str(<<chSlash, chGT>>)),
             OperatorAnd(OperatorAnd(Char(chLT),
                                     cb_StringCallbackFn(OperatorAnd(plus(alphanum), check(Char(chGT))),
                                                         "push", defaultMissingFn)),
                         Char(chGT))),
           OperatorAnd(OperatorAnd(Str(<<chLT, chSlash>>),
                                   cb_StringCallbackFn(OperatorAnd(plus(alphanum), check(Char(chGT))),
                                                       "pop", defaultMissingFn)),
                       Char(chGT))))

\* a tag: "<name>", "</name>" or "<name/>"
Open(n) == [kind |-> "open", name |-> n]
Close(n) == [kind |-> "close", name |-> n]
SelfClosed(n) == [kind |-> "self", name |-> n]

\* the characters of tag t, and of a sequence of tags
Chars(t) ==
    CASE t.kind = "open" -> <<chLT>> \o t.name \o <<chGT>>
      [] t.kind = "close" -> <<chLT, chSlash>> \o t.name \o <<chGT>>
      [] t.kind = "self" -> <<chLT>> \o t.name \o <<chSlash, chGT>>

RECURSIVE Xml(_)
Xml(ts) == IF ts = <<>> THEN <<>> ELSE Chars(ts[1]) \o Xml(Tail(ts))

\* the names "tag0" .. "tag4" of the tests
Tag(d) == <<chT, chA, chG, d>>

\* the four inputs of the test
Xml1 ==
    <<Open(Tag(ch1)), Open(Tag(ch2)), SelfClosed(Tag(ch3)), SelfClosed(Tag(ch4)),
      Close(Tag(ch2)), Close(Tag(ch1))>>
Xml2 ==
    <<Open(Tag(ch1)), Open(Tag(ch2)), SelfClosed(Tag(ch3)), SelfClosed(Tag(ch4)),
      Close(Tag(ch1)), Close(Tag(ch2))>>
Xml3 ==
    <<Open(Tag(ch1)), Open(Tag(ch2)), SelfClosed(Tag(ch3)), SelfClosed(Tag(ch4)),
      Close(Tag(ch2))>>
Xml4 ==
    <<Open(Tag(ch1)), Open(Tag(ch2)), SelfClosed(Tag(ch3)), SelfClosed(Tag(ch4)),
      Close(Tag(ch2)), Close(Tag(ch1)), Close(Tag(ch0))>>

\* the tag sequences matched: the tests' and every sequence of one to MaxTags
\* tags of two names
Names == {Tag(ch1), <<chB, ch2>>}
Tags == {Open(n) : n \in Names} \cup {Close(n) : n \in Names} \cup {SelfClosed(n) : n \in Names}
TagSequences == (Strings(Tags, MaxTags) \ {<<>>}) \cup {Xml1, Xml2, Xml3, Xml4}

\* ------------------------------------- the literal parser of the sample
\* std::string result, and what the four hooks assign to it
NotFound == [label |-> "Not Found.", s |-> <<>>]
hex_cb(s) == [label |-> "Hex: ", s |-> s]
real_cb(s) == [label |-> "Real: ", s |-> s]
int_cb(s) == [label |-> "Int: ", s |-> s]
str_cb(s) == [label |-> "Str: ", s |-> s]

\* result after the hooks of log l ran, in their order
RECURSIVE Result(_, _)
Result(result, l) ==
    IF l = <<>>
    THEN result
    ELSE Result(CASE l[1].fn = "hex_cb" -> hex_cb(l[1].args)
                  [] l[1].fn = "real_cb" -> real_cb(l[1].args)
                  [] l[1].fn = "int_cb" -> int_cb(l[1].args)
                  [] l[1].fn = "str_cb" -> str_cb(l[1].args)
                  [] OTHER -> result,
                Tail(l))

\* delim consuming the delimiter
delim_consumed == OperatorOr(whitespace, eof)

delim == Check(OperatorOr(whitespace, eof))

literal ==
    OperatorOr(
      OperatorOr(
        OperatorOr(
          cb_StringCallbackFn(
            OperatorAnd(OperatorAnd(Str(<<ch0, chX>>), plus(OperatorAnd(hex, hex))), delim),
            "hex_cb", defaultMissingFn),
          cb_StringCallbackFn(OperatorAnd(real, delim), "real_cb", defaultMissingFn)),
        cb_StringCallbackFn(OperatorAnd(integer, delim), "int_cb", defaultMissingFn)),
      OperatorAnd(OperatorAnd(Char(chQuote),
                              cb_StringCallbackFn(Until(Check(Char(chQuote))),
                                                  "str_cb", defaultMissingFn)),
                  Char(chQuote)))

\* the tuple the lambda of literal_parser returns for the outcome r of
\* literal.match
literal_parser(r) ==
    IF r.st = "some"
    THEN <<r.pos, Result(NotFound, r.log)>>
    ELSE <<nullptr, Result(NotFound, r.log)>>

\* "\"What's up?\" and some more stuff"
Readme ==
    <<34, 87, 104, 97, 116, 39, 115, 32, 117, 112, 63, 34, 32, 97, 110, 100,
      32, 115, 111, 109, 101, 32, 109, 111, 114, 101, 32, 115, 116, 117, 102,
      102>>

\* the buffers the literal parser is applied to: the sample's, every string
\* of at most MaxLen characters of its literals, and longer literals
LiteralInputs ==
    Strings({ch0, chX, ch1, chDot, chMinus, chQuote, chSpace, chA}, MaxLen) \cup
    { Readme,
      <<ch0, chX, ch1, chF>>,
      <<ch0, chX, ch1, chF, chSpace, chA>>,
      <<ch0, chX, chUpperA, ch9, ch1, chTab>>,
      <<ch0, chX, ch1, chF, chG>>,
      <<chMinus, ch1, chDot, ch5, chE, ch2, chLF, chA>>,
      <<ch1, chDot, ch5, chE, chSpace>>,
      <<chPlus, ch1, ch2, chCR, ch3>>,
      <<chQuote, chA, chSpace, ch1, chQuote, chB>>,
      <<chQuote, chA, chB, chC, chD>> }

\* the strings the README lists for real(): "1.", "1.234343", "-1.",
\* "+1.3344", "+1.354e4", "-3454.345E11", "22.E-23", "+143.34e+4"
RealExamples ==
    { <<ch1, chDot>>,
      <<ch1, chDot, ch2, ch3, ch4, ch3, ch4, ch3>>,
      <<chMinus, ch1, chDot>>,
      <<chPlus, ch1, chDot, ch3, ch3, ch4, ch4>>,
      <<chPlus, ch1, chDot, ch3, ch5, ch4, chE, ch4>>,
      <<chMinus, ch3, ch4, ch5, ch4, chDot, ch3, ch4, ch5, chUpperE, ch1, ch1>>,
      <<ch2, ch2, chDot, chUpperE, chMinus, ch2, ch3>>,
      <<chPlus, ch1, ch4, ch3, chDot, ch3, ch4, chE, chPlus, ch4>> }

\* the buffers real() is applied to
RealInputs == RealExamples \cup Strings({ch1, chDot, chMinus, chE}, MaxLen)

\* the grammars of the tests' tag scenario, of the sample and of the README
Samples == {"tag_parser", "literal_parser", "real"}

InitSamples ==
    /\ made \in Samples
    /\ \/ made = "tag_parser" /\ args \in TagSequences /\ buf = Xml(args)
                              /\ parser = tag_parser
       \/ made = "literal_parser" /\ args = <<>> /\ buf \in LiteralInputs
                                  /\ parser = literal
       \/ made = "real" /\ args = <<>> /\ buf \in RealInputs /\ parser = real
    /\ src = nullptr
    /\ ret = Idle
    /\ registry = [k \in {} |-> BindRegistryMatch(k)]
    /\ thrown = NoError

SpecSamples == InitSamples /\ [][Next]_vars

\* ------------------------------------------------------------------ claims
\* a call of parser.match has been made; src is a pointer into the buffer
Called == ret.st # "idle"
InBuffer == src # nullptr

\* the sub-expressions handed to the building function
A == args[1]
B == args[2]

\* the outcomes of a sub-expression matched on its own
AtSrc(x) == match(x, buf, src, {})
At(x, p) == match(x, buf, p, {})

\* x has one outcome at every position of the buffer, and it returns
Total(x) ==
    \A q \in 1 .. Sentinel(buf) :
        Cardinality(At(x, q)) = 1 /\ \A r \in At(x, q) : r.st # "hang"

\* that outcome
The(x, p) == CHOOSE r \in At(x, p) : TRUE

RECURSIVE HookFree(_)
HookFree(x) ==
    CASE x.op \in {"Check", "Not", "ZeroPlus", "Until"} -> HookFree(x.expr)
      [] x.op \in {"Or", "And"} -> HookFree(x.left) /\ HookFree(x.right)
      [] x.op \in {"ExistCallback", "RangeCallback", "StringCallback"} -> FALSE
      [] x.op = "User" -> x.fn.target = "Expr::match" /\ HookFree(x.fn.expr)
      [] OTHER -> TRUE

\* the positions reached from p by n consecutive successful matches of x,
\* n = 0, 1, ..., k
RECURSIVE Reached(_, _, _)
Reached(x, p, k) ==
    IF k = 0 \/ The(x, p).st # "some"
    THEN {p}
    ELSE {p} \cup Reached(x, The(x, p).pos, k - 1)

\* C1. Ordered choice: Or(A,B).match(p) is A.match(p) when A succeeds at p,
\* and then B is not evaluated (none of its hooks fire, even if B would match
\* too); when A fails it is B.match(p) at the original position p, after the
\* hooks A fired.  (When A does not return, neither does the choice.)
C1_OrderedChoice ==
    (made = "or" /\ Called) =>
        \E a \in AtSrc(A) :
            \/ a.st = "some" /\ ret = a
            \/ a.st = "nullopt" /\
                  \E r \in AtSrc(B) : ret = [r EXCEPT !.log = a.log \o r.log]
            \/ a.st = "hang" /\ ret = a

\* A succeeded, B would have matched too and would have fired a hook, and no
\* hook of B fired
W1_LeftWins ==
    /\ made = "or" /\ Called /\ InBuffer
    /\ Total(A) /\ Total(B)
    /\ The(A, src).st = "some"
    /\ The(B, src).st = "some"
    /\ The(B, src).pos # The(A, src).pos
    /\ The(B, src).log # <<>>
    /\ ret = The(A, src)
    /\ ret.log = <<>>

\* C2. Sequence: And(A,B).match(p) succeeds iff A succeeds at p with result q
\* and B succeeds at q, and then returns B's result; if A fails B is never
\* evaluated; if either fails the sequence returns std::nullopt; the hooks A
\* and B fired stay fired.
C2_Sequence ==
    (made = "and" /\ Called) =>
        \E a \in AtSrc(A) :
            \/ a.st = "some" /\
                  \E r \in At(B, a.pos) : ret = [r EXCEPT !.log = a.log \o r.log]
            \/ a.st = "nullopt" /\ ret = Nullopt(a.log)
            \/ a.st = "hang" /\ ret = a

\* A matched and fired a hook, B failed after it and fired its failure hook:
\* the sequence failed and both hooks are in the log
W2_FailedAfterHooks ==
    /\ made = "and" /\ Called /\ InBuffer
    /\ Total(A) /\ Total(B)
    /\ The(A, src).st = "some" /\ The(A, src).pos > src /\ The(A, src).log # <<>>
    /\ The(B, The(A, src).pos).st = "nullopt"
    /\ The(B, The(A, src).pos).log # <<>>
    /\ ret = Nullopt(The(A, src).log \o The(B, The(A, src).pos).log)

\* C3. Zero-or-more never fails: for every sub-matcher A (one that returns
\* wherever it is matched) and position p, ZeroPlus(A).match(p) returns
\* success, and the returned position is the one reached after the last of
\* the consecutive successful matches of A starting at p.
C3_ZeroPlusAlwaysSucceeds ==
    (made = "star" /\ Called /\ InBuffer /\ Total(A)) =>
        /\ ret.st = "some"
        /\ ret.pos \in Reached(A, src, Sentinel(buf))
        /\ The(A, ret.pos).st = "nullopt"

C5_Lookahead ==
    (made = "check" /\ Called) =>
        /\ \E a \in AtSrc(A) : ret.st = a.st /\ ret.log = a.log
        /\ ret.st = "some" => ret.pos = src

\* A advanced and the lookahead returned the position it was called with
W5_AdvanceDiscarded ==
    /\ made = "check" /\ Called /\ InBuffer
    /\ Total(A)
    /\ The(A, src).st = "some" /\ The(A, src).pos > src
    /\ ret.st = "some" /\ ret.pos = src

\* C6. Negation: Not(A).match(p) succeeds iff A.match(p) fails, and when it
\* succeeds it returns exactly p; it never advances the position.
C6_Negation ==
    (made = "not" /\ Called) =>
        \E a \in AtSrc(A) :
            \/ a.st = "some" /\ ret = Nullopt(a.log)
            \/ a.st = "nullopt" /\ ret = Some(src, a.log)
            \/ a.st = "hang" /\ ret = a

\* A fails at src, where the negation has succeeded without advancing,
\* although A matches one character further on
W6_NegationSucceeded ==
    /\ made = "not" /\ Called /\ InBuffer
    /\ Total(A)
    /\ Deref(buf, src) # NUL
    /\ The(A, src).st = "nullopt"
    /\ The(A, src + 1).st = "some"
    /\ ret = Some(src, <<>>)

\* C7. One-or-more: plus(A) gives the same result as And(A, ZeroPlus(A)); it
\* fails iff A fails at the starting position, and otherwise returns the
\* position after the last consecutive successful match of A.  (A returns
\* wherever it is matched.)
C7_OnePlus ==
    (made = "plus" /\ Called /\ InBuffer /\ Total(A)) =>
        /\ ret \in AtSrc(And(A, ZeroPlus(A)))
        /\ ret.st = "nullopt" <=> The(A, src).st = "nullopt"
        /\ The(A, src).st = "some" =>
              /\ ret.st = "some"
              /\ ret.pos \in Reached(A, src, Sentinel(buf))
              /\ The(A, ret.pos).st = "nullopt"

\* C8. Optional: maybe(A) is Or(A, Eps) with A tried first; it never fails,
\* returns A's result when A succeeds at p and p itself when A fails at p.
C8_Optional ==
    (made = "maybe" /\ Called) =>
        /\ parser = Or(A, Eps)
        /\ ret.st # "nullopt"
        /\ \E a \in AtSrc(A) :
              \/ a.st = "some" /\ ret = a
              \/ a.st = "nullopt" /\ ret = Some(src, a.log)
              \/ a.st = "hang" /\ ret = a

\* A matched and advanced, and the optional returned A's position
W8_OptionalTaken ==
    /\ made = "maybe" /\ Called /\ InBuffer
    /\ Total(A)
    /\ The(A, src).st = "some" /\ The(A, src).pos > src
    /\ ret.pos = The(A, src).pos

\* C9. Sweep: Until(A).match(p) returns the first position q at or after p
\* at which A succeeds (A has failed at p .. q-1), q itself and not the end of
\* A's match; it fails if the terminator is reached without A succeeding.  On
\* "abababcdef" until('f') returns the position of 'f', until("ef") the
\* position of 'e', and until("fg") fails.
C9_Sweep ==
    (made = "until" /\ Called /\ InBuffer) =>
        /\ \E q \in src .. Sentinel(buf) :
              /\ \A r \in src .. q - 1 : \E a \in At(A, r) : a.st = "nullopt"
              /\ IF q = Sentinel(buf)
                 THEN ret.st = "nullopt"
                 ELSE \E a \in At(A, q) :
                         \/ a.st = "some" /\ ret.st = "some" /\ ret.pos = q
                         \/ a.st = "hang" /\ ret.st = "hang"
        /\ (buf = Example /\ src = 1) =>
              /\ A = Char(chF) => ret.st = "some" /\ Deref(buf, ret.pos) = chF
              /\ A = Str(<<chE, chF>>) => ret.st = "some" /\ Deref(buf, ret.pos) = chE
              /\ A = Str(<<chF, chG>>) => ret.st = "nullopt"

\* until("ef") on "abababcdef" swept eight characters and returned the
\* position of 'e', from where "ef" matches up to the terminator
W9_UntilEf ==
    /\ made = "until" /\ Called
    /\ A = Str(<<chE, chF>>)
    /\ buf = Example /\ src = 1
    /\ ret = Some(9, <<>>)
    /\ At(A, 9) = {Some(Sentinel(buf), <<>>)}

\* Any, Char('\0'), a Range containing '\0', and the sequences of them
RECURSIVE SentinelMatcher(_)
SentinelMatcher(x) ==
    CASE x.op = "Any" -> TRUE
      [] x.op = "Char" -> x.c = NUL
      [] x.op = "Range" -> x.lo <= NUL /\ NUL <= x.hi
      [] x.op = "And" -> SentinelMatcher(x.left) /\ SentinelMatcher(x.right)
      [] OTHER -> FALSE

\* C10. Sentinel fixed point: at the terminator Any, Char('\0') and any Range
\* containing '\0' succeed and return that position unchanged, and so does
\* any sequence of them (Any & Any on an empty buffer); no single-character
\* matcher returns a position past the terminator.
C10_SentinelFixedPoint ==
    Called =>
        /\ (SentinelMatcher(parser) /\ src = Sentinel(buf)) => ret = Some(src, <<>>)
        /\ (parser.op \in {"Any", "Char", "Range"} /\ ret.st = "some") =>
              ret.pos <= Sentinel(buf)

\* Any & Any on the empty buffer returned the pointer it was given
W10_AnyAnyOnEmpty ==
    /\ Called
    /\ parser = And(Any, Any)
    /\ buf = <<>> /\ src = 1
    /\ ret = Some(1, <<>>)

\* C11. Single-character matchers: Char(c).match(p) succeeds iff the
\* character at p equals c, and Range(lo,hi).match(p) iff lo <= the character
\* at p <= hi, both bounds included; a success at a character that is not the
\* terminator returns exactly p+1; Char(c), c not the terminator, fails at the
\* terminator.
C11_SingleCharacter ==
    (Called /\ InBuffer /\ parser.op \in {"Char", "Range"}) =>
        LET ch == Deref(buf, src)
            accepted == IF parser.op = "Char"
                        THEN ch = parser.c
                        ELSE parser.lo <= ch /\ ch <= parser.hi
        IN  /\ ret.st = "some" <=> accepted
            /\ ~accepted => ret = Nullopt(<<>>)
            /\ (accepted /\ ch # NUL) => ret = Some(src + 1, <<>>)
            /\ (parser.op = "Char" /\ parser.c # NUL /\ src = Sentinel(buf)) =>
                  ret = Nullopt(<<>>)

\* Range('a','b') matched a 'b', its upper bound, and advanced by one
W11_UpperBoundIncluded ==
    /\ Called /\ InBuffer
    /\ parser = Range(chA, chB)
    /\ Deref(buf, src) = chB
    /\ ret = Some(src + 1, <<>>)

\* the characters of s are in buffer b from position p on
Occurs(s, b, p) ==
    /\ p + Len(s) - 1 <= Len(b)
    /\ \A i \in 1 .. Len(s) : b[p + i - 1] = s[i]

\* C12. Literal string: Str(s).match(p) succeeds iff the characters of s occur
\* consecutively in the buffer from p on, and then returns exactly
\* p + length(s); it fails on a mismatch and when the input ends before s
\* does (Str("abcd") fails on "ab").
C12_LiteralString ==
    (Called /\ InBuffer /\ parser.op = "Str") =>
        /\ IF Occurs(parser.seq, buf, src)
           THEN ret = Some(src + Len(parser.seq), <<>>)
           ELSE ret = Nullopt(<<>>)
        /\ (parser = Str(<<chA, chB, chC, chD>>) /\ buf = <<chA, chB>>) =>
              ret.st = "nullopt"

\* Str("abcd") failed on "ab", whose two characters it matched
W12_InputEndsFirst ==
    /\ Called
    /\ parser = Str(<<chA, chB, chC, chD>>)
    /\ buf = <<chA, chB>> /\ src = 1
    /\ ret = Nullopt(<<>>)

\* grammars of primitive matchers and structural combinators only
RECURSIVE Structural(_)
Structural(x) ==
    CASE x.op \in {"Check", "Not", "ZeroPlus", "Until"} -> Structural(x.expr)
      [] x.op \in {"Or", "And"} -> Structural(x.left) /\ Structural(x.right)
      [] x.op \in {"Eps", "Any", "Char", "Range", "Str"} -> TRUE
      [] OTHER -> FALSE

\* C13. A match call runs to completion: for every grammar of primitive
\* matchers and structural combinators (no indirection, no user function),
\* match at any position of the buffer returns success or failure; so do
\* star(any()) once it is at the terminator, star(eps()), star(maybe(X)) and
\* star(check(X)).
C13_RunsToCompletion ==
    (Called /\ InBuffer /\ Structural(parser)) =>
        ret.st \in {"some", "nullopt"}

\* the log entry of a hook invoked without arguments, the names of the hooks
\* of a log, and how many times a hook is in a log
Hook(fn) == [fn |-> fn, args |-> <<>>]
Fired(l) == [i \in 1 .. Len(l) |-> l[i].fn]
Count(l, fn) == Cardinality({i \in 1 .. Len(l) : l[i].fn = fn})

\* the tests' cb('a', a_cb) and cb('c', defaultExistFn, c_cb)
CbA == cb(Char(chA), "a_cb", defaultMissingFn)
CbC == cb(Char(chC), defaultExistFn, "c_cb")

\* C14. Exist/Missing notification: a call of a callback node's match invokes
\* exactly one hook, the success hook if the wrapped matcher succeeded and the
\* failure hook otherwise, after the wrapped matcher's result is obtained (and
\* its hooks have fired), and returns the wrapped matcher's result unchanged;
\* hooks fire even when the enclosing grammar fails: in
\* cb('a',a_cb) & cb('c',defaultExistFn,c_cb) on "abcdefg" the match fails and
\* a_cb and c_cb have both fired.  (When the wrapped matcher does not return a
\* result, no hook is invoked.)
C14_ExistMissing ==
    Called =>
        /\ made = "cb" =>
              \E a \in AtSrc(A) :
                  \/ a.st = "some" /\
                        ret = Some(a.pos, a.log \o <<Hook("exist_fn")>>)
                  \/ a.st = "nullopt" /\
                        ret = Nullopt(a.log \o <<Hook("missing_fn")>>)
                  \/ a.st \notin {"some", "nullopt"} /\ ret = a
        /\ (made = "and" /\ A = CbA /\ B = CbC /\ buf = Example2 /\ src = 1) =>
              ret = Nullopt(<<Hook("a_cb"), Hook("c_cb")>>)

\* cb('a',a_cb) & cb('c',defaultExistFn,c_cb) failed on "abcdefg" after a_cb
\* and c_cb fired
W14_HooksOfFailedSequence ==
    /\ made = "and" /\ Called
    /\ A = CbA /\ B = CbC
    /\ buf = Example2 /\ src = 1
    /\ ret.st = "nullopt"
    /\ Fired(ret.log) = <<"a_cb", "c_cb">>

\* the tests' star(cb(Char('a')|'b'|'c', inc_scope)), cb('d', d_cb) and
\* star(cb(Char('e')|'f'|'g', dec_scope))
StarInc ==
    star(cb(OperatorOr(OperatorOr(Char(chA), Char(chB)), Char(chC)),
            "inc_scope", defaultMissingFn))
CbD == cb(Char(chD), "d_cb", defaultMissingFn)
StarDec ==
    star(cb(OperatorOr(OperatorOr(Char(chE), Char(chF)), Char(chG)),
            "dec_scope", defaultMissingFn))

\* int scope after the hooks of log l: ++scope by inc_scope, --scope by
\* dec_scope
Scope(l) == Count(l, "inc_scope") - Count(l, "dec_scope")

\* C15. Hooks are invoked in traversal order: in a sequence the hooks of the
\* left operand fire before those of the right operand; the hook of a nested
\* callback node fires before the hook of the callback node enclosing it; a
\* callback node under zero-or-more fires its success hook once per successful
\* iteration; so in star(cb(a|b|c, inc)) & cb('d', d_cb) & star(cb(e|f|g, dec))
\* on "abcdefg" the counter d_cb reads is 3 and the counter is 0 at the end.
C15_TraversalOrder ==
    Called =>
        /\ made = "and" =>
              \E a \in AtSrc(A) :
                  \/ a.st = "some" /\ \E r \in At(B, a.pos) : ret.log = a.log \o r.log
                  \/ a.st # "some" /\ ret.log = a.log
        /\ (made = "cb" /\ ret.st \in {"some", "nullopt"}) =>
              \E a \in AtSrc(A) :
                  /\ Len(ret.log) = Len(a.log) + 1
                  /\ SubSeq(ret.log, 1, Len(a.log)) = a.log
                  /\ ret.log[Len(ret.log)].fn \in {"exist_fn", "missing_fn"}
        /\ (made = "star" /\ InBuffer /\ A.op = "ExistCallback" /\ Total(A)
                /\ A.exist_fn # defaultExistFn
                /\ ret.st = "some" /\ ret.pos # nullptr) =>
              Count(ret.log, A.exist_fn) =
                  Cardinality(Reached(A, src, Sentinel(buf))) - 1
        /\ (made = "and" /\ A = OperatorAnd(StarInc, CbD) /\ B = StarDec
                /\ buf = Example2 /\ src = 1) =>
              /\ ret.st = "some" /\ ret.pos = Sentinel(buf)
              /\ \E i \in 1 .. Len(ret.log) :
                    /\ ret.log[i].fn = "d_cb"
                    /\ Scope(SubSeq(ret.log, 1, i - 1)) = 3
              /\ Scope(ret.log) = 0

\* the scope grammar matched "abcdefg" to its end: inc_scope three times, then
\* d_cb, then dec_scope three times
W15_ScopeExample ==
    /\ made = "and" /\ Called
    /\ A = OperatorAnd(StarInc, CbD) /\ B = StarDec
    /\ buf = Example2 /\ src = 1
    /\ ret.pos = Sentinel(buf)
    /\ Fired(ret.log) = <<"inc_scope", "inc_scope", "inc_scope", "d_cb",
                          "dec_scope", "dec_scope", "dec_scope">>

\* the characters of the buffer in [p, q)
Text(p, q) == SubSeq(buf, p, q - 1)

\* C16. Span notification (owned): when the wrapped matcher succeeds from p
\* with result q (a position at or after p), the success hook receives the
\* characters of the buffer in [p, q): q - p of them, none when the wrapped
\* matcher rewinds to p, so that a trailing Check in the wrapped matcher is not
\* part of the text; the node returns q unchanged; when the wrapped matcher
\* fails the failure hook is called instead.
C16_SpanOwned ==
    (made = "cb_string" /\ Called /\ InBuffer) =>
        \E a \in AtSrc(A) :
            \/ a.st = "some" /\ a.pos >= src /\
                  ret = Some(a.pos,
                             a.log \o <<[fn |-> "exist_fn", args |-> Text(src, a.pos)]>>)
            \/ a.st = "some" /\ a.pos < src
            \/ a.st = "nullopt" /\ ret = Nullopt(a.log \o <<Hook("missing_fn")>>)
            \/ a.st \notin {"some", "nullopt"} /\ ret = a

\* plus('a') & check('b') wrapped in a string callback matched "aab": the hook
\* received "aa", without the 'b' the Check looked at
W16_TrailingCheckLeftOut ==
    /\ made = "cb_string" /\ Called
    /\ A = OperatorAnd(plus(Char(chA)), check(Char(chB)))
    /\ buf = <<chA, chA, chB>> /\ src = 1
    /\ ret = Some(3, <<[fn |-> "exist_fn", args |-> <<chA, chA>>]>>)

\* C17. Span notification (raw): when the wrapped matcher succeeds from p with
\* result q, the success hook receives the boundaries (p, q), which delimit
\* the text the owned-copy variant delivers for the same matcher and position,
\* and both boundaries are no later than the position of the terminator.
C17_SpanRaw ==
    (made = "cb_range" /\ Called /\ InBuffer /\ Total(A)
        /\ ret.st = "some" /\ ret.pos >= src) =>
        LET call == ret.log[Len(ret.log)]
            owned == The(cb_StringCallbackFn(A, "exist_fn", "missing_fn"), src)
        IN  /\ call.fn = "exist_fn"
            /\ call.args = <<src, ret.pos>>
            /\ Text(call.args[1], call.args[2]) = owned.log[Len(owned.log)].args
            /\ call.args[1] <= Sentinel(buf) /\ call.args[2] <= Sentinel(buf)

\* the key the parser was made with, whether a key is registered, and the
\* grammar bound to it
K == args[1]
Bound(k) == k \in DOMAIN registry
M(k) == registry[k].expr

\* C18. Registry round-trip: after bind(K, M), matching through the
\* indirection obtained by lookup of K gives, at every position, the same
\* result (success position or failure) and the same hook invocations as
\* matching M directly.
C18_RegistryRoundTrip ==
    (made = "user" /\ Called /\ Bound(K)) =>
        /\ registry[K] = BindExprMatch(M(K))
        /\ ret \in At(M(K), src)

\* both keys are bound; the match through the indirection of key 1 returned
\* what cb('a', a_cb, a_missing), bound to 1, returns, after the hook a_cb, and
\* not what the rule of key 0 returns
W18_ThroughIndirection ==
    /\ made = "user" /\ Called /\ InBuffer
    /\ K = 1
    /\ Bound(0) /\ Bound(1)
    /\ M(0) = OperatorAnd(Char(chLP), cb(Char(chA), "a_cb", defaultMissingFn))
    /\ M(1) = cb(Char(chA), "a_cb", "a_missing")
    /\ Deref(buf, src) = chA
    /\ ret = Some(src + 1, <<Hook("a_cb")>>)

\* the end of one term ('a' or a parenthesised sequence of one or more terms)
\* at p, nullptr if there is none, and the end of the longest sequence of
\* terms at p
RECURSIVE TermEnd(_, _)
RECURSIVE TermsEnd(_, _)
TermEnd(b, p) ==
    IF Deref(b, p) = chA
    THEN p + 1
    ELSE IF Deref(b, p) = chLP
         THEN LET q == TermsEnd(b, p + 1) IN
              IF q > p + 1 /\ Deref(b, q) = chRP THEN q + 1 ELSE nullptr
         ELSE nullptr
TermsEnd(b, p) ==
    LET q == TermEnd(b, p) IN
    IF q = nullptr THEN p ELSE TermsEnd(b, q)

\* C19. Forward reference: an indirection made from the registry for key K
\* before K is bound resolves, at a match after bind(K, rule), to the bound
\* rule, so a rule may hold an indirection to itself; the grammar
\* expr = plus('a' | '(' indirection(K) ')') with bind(K, expr) consumes every
\* sequence of nested parenthesised terms and stops at the first character
\* that cannot start a term; on "(a)((a))a(a)(((a))(a))b" it returns the
\* position of 'b'.
C19_ForwardReference ==
    (made = "recursion" /\ Called /\ InBuffer /\ Bound(K)) =>
        /\ M(K) = parser =>
              /\ IF TermsEnd(buf, src) = src
                 THEN ret = Nullopt(<<>>)
                 ELSE ret = Some(TermsEnd(buf, src), <<>>)
              /\ (buf = Sample /\ src = 1) =>
                    ret.st = "some" /\ Deref(buf, ret.pos) = chB
        /\ M(K) \in Rules =>
              ret \in At(plus(OperatorOr(Char(chA),
                                        OperatorAnd(OperatorAnd(Char(chLP), M(K)),
                                                    Char(chRP)))), src)

\* the grammar, bound to the key of its own indirection, matched the sample
\* up to the 'b'
W19_SampleConsumed ==
    /\ made = "recursion" /\ Called
    /\ Bound(K) /\ M(K) = parser
    /\ buf = Sample /\ src = 1
    /\ ret = Some(23, <<>>)

\* C20. Write-once registry: bind on a key that is already registered fails
\* with the duplicate-binding error and leaves the registry unchanged; an
\* entry of the registry never changes, so every key resolves to the first
\* matcher bound to it.
C20_WriteOnce ==
    [][ /\ \A k \in DOMAIN registry : k \in DOMAIN registry' /\ registry'[k] = registry[k]
        /\ \A key \in DOMAIN registry : \A expr \in Rules \cup {parser} :
              Bind(key, expr) => thrown' = DuplicateError /\ registry' = registry
        /\ \A key \in Keys \ DOMAIN registry : \A expr \in Rules \cup {parser} :
              Bind(key, expr) => thrown' = NoError /\ registry'[key] = BindExprMatch(expr)
        /\ thrown' = DuplicateError => registry' = registry
      ]_vars

\* only key K is registered, with 'a'; a later bind threw the duplicate-binding
\* error, and the match through the indirection of K then matched an 'a'
W20_FirstBindingKept ==
    /\ made = "user" /\ Called /\ InBuffer
    /\ DOMAIN registry = {K}
    /\ M(K) = Char(chA)
    /\ thrown = DuplicateError
    /\ Deref(buf, src) = chA
    /\ ret = Some(src + 1, <<>>)

\* the error UserFnRegistry::get throws for a key that is not registered
UnboundError == "Error: UserFn not registered."

\* C21. Unbound key: a match that invokes the indirection of a key that has
\* not been bound ends with the unbound-key error, thrown out of the whole
\* match: the ordered choice above the indirection does not try its
\* alternative, the negation above it does not succeed, the zero-or-more
\* above it does not stop and succeed, and no hook runs.
C21_UnboundKeyFatal ==
    (/\ Called
     /\ ~Bound(K)
     /\ \/ made \in {"user", "left", "not_user"}
        \/ made = "star_user" /\ InBuffer
        \/ made = "recursion" /\ InBuffer /\ Deref(buf, src) = chLP) =>
        /\ UserFnRegistry_get(registry, K).thrown = UnboundError
        /\ ret = Throw(<<>>)

\* the other key is bound, the key of the indirection is not: the choice
\* whose alternative matches the 'a' at src ended with the error
W21_AlternativeNotTried ==
    /\ made = "left" /\ Called /\ InBuffer
    /\ ~Bound(K) /\ DOMAIN registry # {}
    /\ Deref(buf, src) = chA
    /\ ret = Throw(<<>>)

\* the calls of user_fns.bind and of parser.match a step makes
BindStep == ret' = ret /\ (registry' # registry \/ thrown' # thrown)
MatchStep == ret.st = "idle" /\ ret'.st # "idle"

\* C22. Construction-level errors: a duplicate binding is signalled by the
\* bind call itself and by no later call; the lookup of a key that is not
\* bound signals nothing during grammar assembly, the unbound-key error is
\* thrown by the call of match that invokes the indirection, and by no call
\* of match when every key is bound.
C22_DuplicateAtBindUnboundAtMatch ==
    [][ /\ \A key \in Keys : \A expr \in Rules \cup {parser} :
              Bind(key, expr) => (thrown' = DuplicateError <=> Bound(key))
        /\ MatchStep =>
              /\ thrown' = thrown
              /\ ret'.st = "throw" => \E k \in Keys : ~Bound(k)
              /\ (made = "user" /\ ~Bound(K)) => ret' = Throw(<<>>)
      ]_vars

\* C22 as stated: the errors are signalled during grammar assembly, so no
\* call of match ends with one.
C22_NotDeferredToMatchTime == Called => ret.st # "throw"

\* the grammar was assembled with the indirection of a key that was never
\* bound and no call of the assembly threw; the call of match did
W22_ThrownByMatch ==
    /\ made = "user" /\ Called /\ InBuffer
    /\ registry = [k \in {} |-> BindRegistryMatch(k)]
    /\ thrown = NoError
    /\ ret = Throw(<<>>)

\* C23. Zero-or-more is idempotent on its own output: when star(A), A without
\* hooks, returned q for p, star(A) matched at q returns q.
C23_StarIdempotent ==
    (made = "star" /\ Called /\ HookFree(A) /\ ret.st = "some") =>
        At(parser, ret.pos) = {Some(ret.pos, <<>>)}

\* star('a') took the two 'a' of "aab" and stopped at the 'b'
W23_StoppedWhereItStops ==
    /\ made = "star" /\ Called
    /\ A = Char(chA)
    /\ buf = <<chA, chA, chB>> /\ src = 1
    /\ ret = Some(3, <<>>)
    /\ At(parser, 3) = {Some(3, <<>>)}

\* the tags of sequence ts of one kind
Of(ts, kind) == {i \in 1 .. Len(ts) : ts[i].kind = kind}

\* the names of the tags of ts that are open after its first i tags, when
\* these are well nested so far; <<"bad">> when they are not
RECURSIVE OpenAfter(_, _)
OpenAfter(ts, i) ==
    IF i = 0
    THEN <<>>
    ELSE LET before == OpenAfter(ts, i - 1) IN
         CASE before = <<"bad">> -> before
           [] ts[i].kind = "self" -> before
           [] ts[i].kind = "open" -> Append(before, ts[i].name)
           [] ts[i].kind = "close" ->
                IF before # <<>> /\ before[Len(before)] = ts[i].name
                THEN SubSeq(before, 1, Len(before) - 1)
                ELSE <<"bad">>

\* every closing tag closes the last tag still open, and no tag stays open
WellNested(ts) == ts # <<>> /\ OpenAfter(ts, Len(ts)) = <<>>

\* the deepest nesting of a well nested ts
Deepest(ts) ==
    LET depths == {Len(OpenAfter(ts, i)) : i \in 0 .. Len(ts)} IN
    CHOOSE d \in depths : \A e \in depths : e <= d

\* the state of the test's hooks after the call of match
Tracked == RunHooks(reset, ret.log)

\* C24. End-to-end tag scenario: the tag parser matched from the start of a
\* well nested tag sequence returns the position of the terminator, has
\* pushed once per opening tag and popped once per closing tag (so never for a
\* self-closing tag), and leaves the tag stack empty, both error flags unset
\* and max_depth at the deepest nesting; for
\* "<tag1><tag2><tag3/><tag4/></tag2></tag1>" that is two pushes, two pops and
\* max_depth 2.
C24_WellNestedTags ==
    (made = "tag_parser" /\ Called /\ src = 1 /\ WellNested(args)) =>
        /\ ret.st = "some" /\ ret.pos = Sentinel(buf)
        /\ Deref(buf, ret.pos) = NUL
        /\ Count(ret.log, "push") = Cardinality(Of(args, "open"))
        /\ Count(ret.log, "pop") = Cardinality(Of(args, "close"))
        /\ Len(ret.log) = Cardinality(Of(args, "open")) + Cardinality(Of(args, "close"))
        /\ Tracked.tag_stack = <<>>
        /\ ~Tracked.error_stack_underflow
        /\ ~Tracked.error_closed_wrong_tag
        /\ Tracked.max_depth = Deepest(args)
        /\ args = Xml1 =>
              /\ Count(ret.log, "push") = 2 /\ Count(ret.log, "pop") = 2
              /\ Tracked.max_depth = 2

\* the first input of the test was matched to its end, with tag1 and tag2
\* pushed and popped
W24_FirstTestInput ==
    /\ made = "tag_parser" /\ Called /\ src = 1
    /\ args = Xml1 /\ WellNested(args)
    /\ ret.st = "some" /\ ret.pos = Sentinel(buf)
    /\ Fired(ret.log) = <<"push", "push", "pop", "pop">>
    /\ Tracked = [reset EXCEPT !.max_depth = 2]

\* the hooks a tag sequence invokes, in order: push with the name of an
\* opening tag, pop with the name of a closing tag
RECURSIVE HooksOf(_)
HooksOf(ts) ==
    IF ts = <<>>
    THEN <<>>
    ELSE (CASE ts[1].kind = "open" -> <<[fn |-> "push", args |-> ts[1].name]>>
            [] ts[1].kind = "close" -> <<[fn |-> "pop", args |-> ts[1].name]>>
            [] OTHER -> <<>>) \o HooksOf(Tail(ts))

\* C25. The tag parser matched from the start of a concatenation of one or more
\* tags returns the position of the terminator whatever the nesting, with the
\* hooks of the opening and closing tags invoked in their order; nesting
\* errors show in the hooks' state only: closing tags in the wrong order set
\* the wrong-tag flag, not the underflow flag, and leave the stack non-empty;
\* a missing closing tag sets no flag and leaves the stack non-empty; a
\* closing tag on an empty stack sets both flags and leaves the stack empty;
\* max_depth is 2 for each of these inputs of the test.
C25_NestingErrorsInHooksOnly ==
    (made = "tag_parser" /\ Called /\ src = 1) =>
        /\ ret.st = "some" /\ ret.pos = Sentinel(buf)
        /\ ret.log = HooksOf(args)
        /\ args = Xml2 =>
              /\ ~Tracked.error_stack_underflow /\ Tracked.error_closed_wrong_tag
              /\ Tracked.tag_stack # <<>> /\ Tracked.max_depth = 2
        /\ args = Xml3 =>
              /\ ~Tracked.error_stack_underflow /\ ~Tracked.error_closed_wrong_tag
              /\ Tracked.tag_stack # <<>> /\ Tracked.max_depth = 2
        /\ args = Xml4 =>
              /\ Tracked.error_stack_underflow /\ Tracked.error_closed_wrong_tag
              /\ Tracked.tag_stack = <<>> /\ Tracked.max_depth = 2
        /\ (args[1].kind = "close") =>
              Tracked.error_stack_underflow /\ Tracked.error_closed_wrong_tag
        /\ (Of(args, "close") = {} /\ Of(args, "open") # {}) =>
              /\ ~Tracked.error_stack_underflow /\ ~Tracked.error_closed_wrong_tag
              /\ Len(Tracked.tag_stack) = Cardinality(Of(args, "open"))

\* the test's input with the closing tags exchanged was matched to its end;
\* </tag1> met tag2 on the stack, so nothing was popped until </tag2>
W25_WrongOrder ==
    /\ made = "tag_parser" /\ Called /\ src = 1
    /\ args = Xml2 /\ ~WellNested(args)
    /\ ret.st = "some" /\ ret.pos = Sentinel(buf)
    /\ Tracked = [reset EXCEPT !.tag_stack = <<Tag(ch1)>>,
                               !.max_depth = 2,
                               !.error_closed_wrong_tag = TRUE]

\* the position of the first '"' of the buffer at or after p, the position of
\* the terminator when there is none
RECURSIVE NextQuote(_)
NextQuote(p) ==
    IF p > Len(buf) \/ buf[p] = chQuote THEN p ELSE NextQuote(p + 1)

\* the characters that end a hex, real or integer literal
Delimiters == {chSpace, chTab, chCR, chLF, NUL}

\* what the sample prints: the result and the remaining input
Reported == literal_parser(ret)[2]
Remaining == SubSeq(buf, literal_parser(ret)[1], Len(buf))

\* C26. The sample's literal parser on "\"What's up?\" and some more stuff"
\* reports "Str: What's up?" and the remaining input " and some more stuff".
\* On a quoted string the string hook receives the text between the two
\* quotes and the position returned is the one after the closing quote; when
\* the hex, real or integer alternative matches, the position returned is at
\* the delimiter (white space or the terminator), which is not consumed, and
\* the hook receives the text before it.
C26_LiteralParser ==
    (made = "literal_parser" /\ Called /\ InBuffer) =>
        /\ (buf = Readme /\ src = 1) =>
              /\ Reported = str_cb(SubSeq(Readme, 2, 11))
              /\ Remaining = SubSeq(Readme, 13, 32)
              /\ Remaining[1] = chSpace
        /\ (Deref(buf, src) = chQuote /\ NextQuote(src + 1) <= Len(buf)) =>
              /\ ret.st = "some" /\ ret.pos = NextQuote(src + 1) + 1
              /\ ret.log = <<[fn |-> "str_cb", args |-> Text(src + 1, NextQuote(src + 1))]>>
        /\ (Deref(buf, src) = chQuote /\ NextQuote(src + 1) > Len(buf)) =>
              ret = Nullopt(<<>>)
        /\ Reported.label \in {"Hex: ", "Real: ", "Int: "} =>
              /\ ret.st = "some" /\ ret.pos > src
              /\ Deref(buf, ret.pos) \in Delimiters
              /\ \A q \in src .. ret.pos - 1 : Deref(buf, q) \notin Delimiters
              /\ Reported.s = Text(src, ret.pos)
              /\ Len(ret.log) = 1
        /\ ret.st = "some" <=> Reported # NotFound

\* the sample's run
W26_SampleOutput ==
    /\ made = "literal_parser" /\ Called
    /\ buf = Readme /\ src = 1
    /\ ret.st = "some" /\ ret.pos = 13
    /\ Reported.label = "Str: " /\ Len(Reported.s) = 10

\* C27. real() matches each of "1.", "1.234343", "-1.", "+1.3344", "+1.354e4",
\* "-3454.345E11", "22.E-23" and "+143.34e+4" from its start to its
\* terminator: an optional sign, one or more digits, a '.', optional digits
\* and an optional exponent (e or E, an optional sign, one or more digits).
C27_RealExamples ==
    (made = "real" /\ Called /\ src = 1 /\ buf \in RealExamples) =>
        ret = Some(Sentinel(buf), <<>>)

\* "-3454.345E11" was matched to its end
W27_SignedWithExponent ==
    /\ made = "real" /\ Called /\ src = 1
    /\ buf = <<chMinus, ch3, ch4, ch5, ch4, chDot, ch3, ch4, ch5, chUpperE, ch1, ch1>>
    /\ ret = Some(13, <<>>)

\* the operands of the zero-or-more nodes of grammar x
RECURSIVE StarOperands(_)
StarOperands(x) ==
    CASE x.op = "ZeroPlus" -> {x.expr} \cup StarOperands(x.expr)
      [] x.op \in {"Check", "Not", "Until", "ExistCallback", "RangeCallback",
                   "StringCallback"} -> StarOperands(x.expr)
      [] x.op \in {"Or", "And"} -> StarOperands(x.left) \cup StarOperands(x.right)
      [] OTHER -> {}

\* x, matched anywhere in the buffer, ends after the position it started at
\* whenever it succeeds
Advances(x) ==
    \A q \in 1 .. Sentinel(buf) : \A r \in At(x, q) : r.st = "some" => r.pos > q

\* the operand of star(A) succeeds without advancing at a position the loop
\* reaches from src
StuckAt(x) ==
    \E q \in Reached(x, src, Sentinel(buf)) :
        The(x, q).st = "some" /\ The(x, q).pos = q

C30_UntilNotAtSentinel ==
    (made = "until" /\ Called) =>
        /\ src = Sentinel(buf) => ret = Nullopt(<<>>)
        /\ A = eof =>
              /\ ret = Nullopt(<<>>)
              /\ At(A, Sentinel(buf)) = {Some(Sentinel(buf), <<>>)}

\* until(eps()) failed at the terminator of "ab", where eps() matches
W30_EpsAtSentinel ==
    /\ made = "until" /\ Called
    /\ A = Eps
    /\ buf = <<chA, chB>> /\ src = Sentinel(buf)
    /\ AtSrc(A) = {Some(src, <<>>)}
    /\ ret = Nullopt(<<>>)

====
